---- MODULE Spec2Model ----
(***************************************************************************)
(* Model of src/db/file.rs: add_path_into_database and file_list_to_json.   *)
(*                                                                         *)
(* add_path_into_database calls Storage::store_all, propagates its error    *)
(* with `?`, collects the returned file list into a Vec, maps it to a JSON  *)
(* array of [mimetype, path] arrays and returns it with the compression     *)
(* algorithms.  Storage::store_all lives in crate::storage, outside this    *)
(* file; its steps are modelled from the written contract of section 4.2.   *)
(*                                                                         *)
(* Text (Rust String) is a sequence of Unicode code points, a path          *)
(* (PathBuf / OsString) is a sequence of bytes.                             *)
(***************************************************************************)
EXTENDS Integers, Sequences, FiniteSets, TLC

VARIABLES
    dir,          \* the directory tree: the set of regular files under the root
    backend,      \* the active storage backend: key -> stored versions
    pc,           \* position of the caller / of add_path_into_database
    prefix,       \* the `prefix` argument of the running call
    uploaded,     \* store_all: files written so far in this call
    storeResult,  \* the value store_all returned to line 30
    file_list,    \* the Vec handed to file_list_to_json (line 32)
    json,         \* the outcome of file_list_to_json
    result,       \* the outcome of add_path_into_database
    storeCalls,   \* number of store_all invocations of the running call
    returns,      \* number of returns of the running call to its caller
    calls,        \* number of calls made so far
    snapshot,     \* the backend as store_all left it
    prev          \* summary of the previous completed call

vars == <<dir, backend, pc, prefix, uploaded, storeResult, file_list, json,
          result, storeCalls, returns, calls, snapshot, prev>>

----------------------------------------------------------------------------
(* Bounds *)

\* Longest Vec handed to file_list_to_json when it is checked on its own.
MaxLen == 3

\* Calls of add_path_into_database made one after the other.
MaxCalls == 2

----------------------------------------------------------------------------
(* Result<T, E>, a panic, and serde_json::Value *)

None == <<"None">>
Ok(v) == <<"Ok", v>>
Err(e) == <<"Err", e>>
Panic == <<"Panic">>

IsOk(r) == r[1] = "Ok"
IsErr(r) == r[1] = "Err"
IsPanic(r) == r[1] = "Panic"
IsNone(r) == r[1] = "None"

ValueString(s) == <<"String", s>>
ValueArray(items) == <<"Array", items>>

----------------------------------------------------------------------------
(* Text <-> path bytes: UTF-8 *)

\* The bytes a text path has as a PathBuf (UTF-8 encoding of one code point).
EncodeChar(c) ==
    IF c < 128 THEN <<c>>
    ELSE IF c < 2048 THEN <<192 + (c \div 64), 128 + (c % 64)>>
    ELSE IF c < 65536
         THEN <<224 + (c \div 4096), 128 + ((c \div 64) % 64), 128 + (c % 64)>>
         ELSE <<240 + (c \div 262144), 128 + ((c \div 4096) % 64),
                128 + ((c \div 64) % 64), 128 + (c % 64)>>

RECURSIVE Encode(_)
Encode(t) == IF t = <<>> THEN <<>> ELSE EncodeChar(Head(t)) \o Encode(Tail(t))

IsCont(b) == b >= 128 /\ b <= 191

\* Length of the UTF-8 sequence a lead byte starts, 0 for a byte that starts none.
SeqLen(b) ==
    IF b < 128 THEN 1
    ELSE IF b >= 194 /\ b <= 223 THEN 2
    ELSE IF b >= 224 /\ b <= 239 THEN 3
    ELSE IF b >= 240 /\ b <= 244 THEN 4
    ELSE 0

\* The continuation bytes of the sequence of length n at the head of b are
\* well formed (no overlong form, no surrogate, nothing above U+10FFFF).
WellFormed(b, n) ==
    /\ n > 0
    /\ Len(b) >= n
    /\ \A i \in 2..n : IsCont(b[i])
    /\ (b[1] = 224 => b[2] >= 160)
    /\ (b[1] = 237 => b[2] <= 159)
    /\ (b[1] = 240 => b[2] >= 144)
    /\ (b[1] = 244 => b[2] <= 143)

CodePoint(b, n) ==
    IF n = 1 THEN b[1]
    ELSE IF n = 2 THEN (b[1] - 192) * 64 + (b[2] - 128)
    ELSE IF n = 3 THEN (b[1] - 224) * 4096 + (b[2] - 128) * 64 + (b[3] - 128)
    ELSE (b[1] - 240) * 262144 + (b[2] - 128) * 4096
         + (b[3] - 128) * 64 + (b[4] - 128)

\* OsString::into_string: Ok(text) for well-formed UTF-8, Err(bytes) otherwise.
RECURSIVE Utf8Decode(_)
Utf8Decode(b) ==
    IF b = <<>> THEN Ok(<<>>)
    ELSE LET n == SeqLen(b[1]) IN
         IF ~WellFormed(b, n) THEN Err(b)
         ELSE LET rest == Utf8Decode(SubSeq(b, n + 1, Len(b))) IN
              IF IsErr(rest) THEN Err(b)
              ELSE Ok(<<CodePoint(b, n)>> \o rest[2])

into_string(path) == Utf8Decode(path)

----------------------------------------------------------------------------
(* The inputs *)

\* "a"
TextA == <<97>>
\* "e" with an acute accent (U+00E9): two bytes as a path
TextE == <<233>>
\* the euro sign (U+20AC): three bytes as a path
TextEuro == <<8364>>
Texts == {TextA, TextE, TextEuro}

\* A path that is no text: 0xFF starts no UTF-8 sequence.
BadPath == <<255>>

Paths == {Encode(t) : t \in Texts} \cup {BadPath}
IsText(path) == \E t \in Texts : Encode(t) = path
TextOf(path) == CHOOSE t \in Texts : Encode(t) = path

\* "text/html"
MimeHtml == <<116, 101, 120, 116, 47, 104, 116, 109, 108>>
\* "application/javascript"
MimeJs == <<97, 112, 112, 108, 105, 99, 97, 116, 105, 111, 110, 47,
            106, 97, 118, 97, 115, 99, 114, 105, 112, 116>>
Mimes == {MimeHtml, MimeJs}

Prefixes == {"crate-1.0.0", "crate-2.0.0"}
Algorithms == {"zstd", "bzip2"}
StoreErrors == {"BackendWriteError", "SourceReadError"}

\* (PathBuf, String): one element of the file list
Records == Paths \X Mimes

\* The mimetype detector: a function of the file.
DetectMime(path) ==
    IF path \in {Encode(TextA), BadPath} THEN MimeHtml ELSE MimeJs

\* The directories: at most one file at each path, with its detected
\* mimetype.
Directories == {{<<p, DetectMime(p)>> : p \in ps} : ps \in SUBSET Paths}

\* Vec<(PathBuf, String)> of at most n elements
SeqsUpTo(S, n) == UNION {[1..k -> S] : k \in 0..n}

\* The orders in which a collection may be iterated.
Orders(S) ==
    {s \in [1..Cardinality(S) -> S] : \A i, j \in DOMAIN s : s[i] = s[j] => i = j}

Range(s) == {s[i] : i \in DOMAIN s}

----------------------------------------------------------------------------
(* file_list_to_json, lines 37-49 *)

\* The closure of line 40: [name, path as text]; unwrap panics on a path
\* that is no text.
Entry(rec) ==
    LET s == into_string(rec[1]) IN
    IF IsErr(s) THEN Panic
    ELSE Ok(ValueArray(<<ValueString(rec[2]), ValueString(s[2])>>))

\* into_iter().map(..).collect(): in order; a panic drops what was built.
RECURSIVE MapCollect(_)
MapCollect(fl) ==
    IF fl = <<>> THEN Ok(<<>>)
    ELSE LET e == Entry(Head(fl)) IN
         IF IsPanic(e) THEN Panic
         ELSE LET rest == MapCollect(Tail(fl)) IN
              IF IsPanic(rest) THEN Panic ELSE Ok(<<e[2]>> \o rest[2])

\* Variants of file_list_to_json with a plausible slip each.
\* The path first, the mimetype second.
file_list_to_json_path_first(fl) ==
    LET m == MapCollect(fl) IN
    IF IsPanic(m) THEN Panic
    ELSE Ok(ValueArray([i \in DOMAIN m[2] |->
                           ValueArray(<<m[2][i][2][2], m[2][i][2][1]>>)]))

\* filter_map instead of map + unwrap: a path that is no text is skipped.
RECURSIVE FilterMapCollect(_)
FilterMapCollect(fl) ==
    IF fl = <<>> THEN <<>>
    ELSE LET e == Entry(Head(fl)) IN
         IF IsPanic(e) THEN FilterMapCollect(Tail(fl))
         ELSE <<e[2]>> \o FilterMapCollect(Tail(fl))

file_list_to_json_skips_bad(fl) == Ok(ValueArray(FilterMapCollect(fl)))

\* The failed conversion returned as an error value instead of unwrapped.
file_list_to_json_typed_error(fl) ==
    LET m == MapCollect(fl) IN
    IF IsPanic(m) THEN Err("PathEncodingError") ELSE Ok(ValueArray(m[2]))

\* An off-by-one that loses the last element.
file_list_to_json_drops_last(fl) ==
    LET m == MapCollect(fl) IN
    IF IsPanic(m) THEN Panic
    ELSE Ok(ValueArray(SubSeq(m[2], 1, Len(m[2]) - 1)))

file_list_to_json(fl) ==
    LET m == MapCollect(fl) IN
    IF IsPanic(m) THEN Panic ELSE Ok(ValueArray(m[2]))

----------------------------------------------------------------------------
(* Storage::store_all and the backend, from the contract of section 4.2 *)

Keys == Prefixes \X Paths

\* Which compression the selector applies to a file of this mimetype.
AlgorithmFor(mime) == IF mime = MimeJs THEN "zstd" ELSE "none"

\* The object stored for a file.
Object(f) == <<f[2], AlgorithmFor(f[2])>>

\* put: the object replaces whatever the key held.
Put(b, key, obj) == [b EXCEPT ![key] = <<obj>>]

\* One file is detected, compressed and written under prefix/path.  Files
\* are taken in any order.
StoreFile(f) ==
    /\ pc = "store_all"
    /\ f \in dir \ uploaded
    /\ backend' = Put(backend, <<prefix, f[1]>>, Object(f))
    /\ uploaded' = uploaded \cup {f}
    /\ UNCHANGED <<dir, pc, prefix, storeResult, file_list, json, result,
                   storeCalls, returns, calls, snapshot, prev>>

\* A write is rejected or a source cannot be read: the batch fails as a
\* whole.  What was already written stays as the backend has it.
StoreAllFail(e) ==
    /\ pc = "store_all"
    /\ \/ uploaded # dir
       \/ uploaded = {} /\ e = "SourceReadError"
    /\ storeResult' = Err(e)
    /\ snapshot' = backend
    /\ pc' = "store_returned"
    /\ UNCHANGED <<dir, backend, prefix, uploaded, file_list, json, result,
                   storeCalls, returns, calls, prev>>

\* Every file is written: the (path, mimetype) pairs and the algorithms used.
StoreAllOk ==
    /\ pc = "store_all"
    /\ uploaded = dir
    /\ storeResult' = Ok(<<uploaded,
                           {AlgorithmFor(f[2]) : f \in uploaded} \ {"none"}>>)
    /\ snapshot' = backend
    /\ pc' = "store_returned"
    /\ UNCHANGED <<dir, backend, prefix, uploaded, file_list, json, result,
                   storeCalls, returns, calls, prev>>

----------------------------------------------------------------------------
(* add_path_into_database, lines 25-35 *)

Finished == pc \in {"done", "panicked"}

\* The caller invokes add_path_into_database(storage, p, path); line 30
\* calls store_all.
Call(p) ==
    /\ pc = "idle" \/ Finished
    /\ calls < MaxCalls
    /\ calls' = calls + 1
    /\ prefix' = p
    /\ prev' = IF Finished
               THEN [valid |-> TRUE, prefix |-> prefix, result |-> result,
                     backend |-> backend]
               ELSE prev
    /\ pc' = "store_all"
    /\ uploaded' = {}
    /\ storeResult' = None
    /\ file_list' = <<>>
    /\ json' = None
    /\ result' = None
    /\ storeCalls' = 1
    /\ returns' = 0
    /\ UNCHANGED <<dir, backend, snapshot>>

\* A variant of line 30 that goes on with what was uploaded when store_all
\* failed.
Line30_goes_on ==
    /\ pc = "store_returned"
    /\ \E order \in Orders(IF IsErr(storeResult) THEN uploaded
                           ELSE storeResult[2][1]) :
           file_list' = order
    /\ pc' = "assemble"
    /\ UNCHANGED <<dir, backend, prefix, uploaded, storeResult, json, result,
                   storeCalls, returns, calls, snapshot, prev>>

\* Line 30, `?`: an Err of store_all is returned as it is.  Line 32,
\* file_list.into_iter().collect(): the pairs in the collection's order.
Line30 ==
    /\ pc = "store_returned"
    /\ IF IsErr(storeResult)
       THEN /\ result' = storeResult
            /\ returns' = returns + 1
            /\ pc' = "done"
            /\ UNCHANGED file_list
       ELSE /\ \E order \in Orders(storeResult[2][1]) : file_list' = order
            /\ pc' = "assemble"
            /\ UNCHANGED <<result, returns>>
    /\ UNCHANGED <<dir, backend, prefix, uploaded, storeResult, json,
                   storeCalls, calls, snapshot, prev>>

\* The tail of the function with the outcome j of file_list_to_json, the
\* algorithm set algs it returns and the backend b it leaves.
Tail31(j, algs, b) ==
    /\ json' = j
    /\ backend' = b
    /\ IF IsPanic(j)
       THEN /\ result' = Panic
            /\ pc' = "panicked"
            /\ UNCHANGED returns
       ELSE /\ result' = IF IsErr(j) THEN j ELSE Ok(<<j[2], algs>>)
            /\ returns' = returns + 1
            /\ pc' = "done"
    /\ UNCHANGED <<dir, prefix, uploaded, storeResult, file_list,
                   storeCalls, calls, snapshot, prev>>

\* Variants of lines 31-34.
\* CompressionAlgorithms::default() returned instead of `algorithms`.
Line31_default_algorithms ==
    /\ pc = "assemble"
    /\ Tail31(file_list_to_json(file_list), {}, backend)

\* The manifest is also written to the backend.
Line31_stores_manifest ==
    /\ pc = "assemble"
    /\ Tail31(file_list_to_json(file_list), storeResult[2][2],
              Put(backend, <<prefix, BadPath>>, <<MimeJs, "none">>))

\* Lines 31-34: file_list_to_json(..)?, then Ok((manifest, algorithms)).  A
\* panic of the unwrap of line 43 unwinds through the function: nothing is
\* returned.  A caller that catches the unwind may call again; a build that
\* aborts on panic makes no further call.
Line31 ==
    /\ pc = "assemble"
    /\ Tail31(file_list_to_json(file_list), storeResult[2][2], backend)

----------------------------------------------------------------------------
(* The specifications *)

NoPrev == [valid |-> FALSE, prefix |-> "", result |-> None,
           backend |-> [k \in Keys |-> <<>>]]

Init ==
    /\ dir \in Directories
    /\ backend = [k \in Keys |-> <<>>]
    /\ pc = "idle"
    /\ prefix = ""
    /\ uploaded = {}
    /\ storeResult = None
    /\ file_list = <<>>
    /\ json = None
    /\ result = None
    /\ storeCalls = 0
    /\ returns = 0
    /\ calls = 0
    /\ snapshot = backend
    /\ prev = NoPrev

Next ==
    \/ \E p \in Prefixes : Call(p)
    \/ \E f \in Records : StoreFile(f)
    \/ \E e \in StoreErrors : StoreAllFail(e)
    \/ StoreAllOk
    \/ Line30
    \/ Line31

Spec == Init /\ [][Next]_vars

\* file_list_to_json on its own: any Vec of at most MaxLen pairs, with
\* repeated pairs, handed to line 32 with any algorithm set.
InitAssemble ==
    /\ dir = {}
    /\ backend = [k \in Keys |-> <<>>]
    /\ pc = "assemble"
    /\ prefix \in Prefixes
    /\ uploaded = {}
    /\ \E algs \in SUBSET Algorithms : storeResult = Ok(<<{}, algs>>)
    /\ file_list \in SeqsUpTo(Records, MaxLen)
    /\ json = None
    /\ result = None
    /\ storeCalls = 1
    /\ returns = 0
    /\ calls = 1
    /\ snapshot = backend
    /\ prev = NoPrev

NextAssemble == Line31

SpecAssemble == InitAssemble /\ [][NextAssemble]_vars

----------------------------------------------------------------------------
(* Properties *)

AllText(fl) == \A i \in DOMAIN fl : IsText(fl[i][1])

\* The manifest entry of a (path, mimetype) pair whose path is text.
ManifestEntry(rec) ==
    ValueArray(<<ValueString(rec[2]), ValueString(TextOf(rec[1]))>>)

\* The entries of the manifest an Ok outcome of add_path_into_database holds.
Manifest(r) == r[2][1][2]

\* C1: for a file list whose paths are all text, file_list_to_json returns
\* an array of the same length whose i-th entry is [mimetype_i, path_i as
\* text]; nothing is reordered, sorted or merged.
C1_OrderPreserved ==
    (~IsNone(json) /\ AllText(file_list)) =>
        /\ IsOk(json)
        /\ json[2][1] = "Array"
        /\ Len(json[2][2]) = Len(file_list)
        /\ \A i \in DOMAIN file_list :
               json[2][2][i] = ManifestEntry(file_list[i])

\* Two equal pairs, then a different one, gave three entries.
C1_Witness ==
    /\ IsOk(json)
    /\ Len(file_list) = 3
    /\ file_list[1] = file_list[2]
    /\ file_list[3] # file_list[1]
    /\ file_list[1][1] = Encode(TextE)
    /\ Len(json[2][2]) = 3

\* C2: when store_all fails, add_path_into_database returns that error,
\* once, with no manifest and no algorithm set, and file_list_to_json is
\* not run on what had been uploaded.
C2_StoreFailureAborts ==
    IsErr(storeResult) =>
        /\ pc \in {"store_returned", "done"}
        /\ IsNone(json)
        /\ file_list = <<>>
        /\ pc = "done" => (result = storeResult /\ returns = 1)

\* The write of the third of three files was rejected and the call returned.
C2_Witness ==
    /\ pc = "done"
    /\ IsErr(storeResult)
    /\ storeResult[2] = "BackendWriteError"
    /\ Cardinality(uploaded) = 2
    /\ Cardinality(dir) = 3

\* C3: when a path of the file list is no text, file_list_to_json delivers
\* no manifest, whatever the position of that path: it panics, and the
\* call returns nothing to its caller.
C3_NoPartialManifest ==
    (~IsNone(json) /\ ~AllText(file_list)) =>
        /\ IsPanic(json)
        /\ IsPanic(result)
        /\ returns = 0

\* The bad path came third, after two paths that are text.
C3_Witness ==
    /\ IsPanic(json)
    /\ Len(file_list) = 3
    /\ IsText(file_list[1][1])
    /\ IsText(file_list[2][1])
    /\ ~IsText(file_list[3][1])

\* C4: every error of the call, from store_all or from the conversion of a
\* path to text, reaches the caller as an Err value of the Result.
C4_ErrorsAreTyped ==
    (Finished /\ (IsErr(storeResult) \/ ~AllText(file_list))) => IsErr(result)

\* C5: on success the algorithm set returned is the one store_all returned.
C5_AlgorithmsUnchanged ==
    (pc = "done" /\ IsOk(result)) =>
        /\ IsOk(storeResult)
        /\ result[2][2] = storeResult[2][2]

\* A successful call whose batch used a compression algorithm.
C5_Witness ==
    /\ pc = "done"
    /\ IsOk(result)
    /\ result[2][2] = {"zstd"}
    /\ Len(Manifest(result)) = 2

\* C6: on success the manifest has exactly one entry for each file
\* store_all uploaded and no other entry, whatever the order of the uploads
\* and of the collection.
C6_EachFileOnce ==
    (pc = "done" /\ IsOk(result)) =>
        LET m == Manifest(result) IN
        /\ Len(m) = Cardinality(uploaded)
        /\ \A f \in uploaded :
               Cardinality({i \in DOMAIN m : m[i] = ManifestEntry(f)}) = 1
        /\ \A i \in DOMAIN m : \E f \in uploaded : m[i] = ManifestEntry(f)

\* Three files uploaded, and the manifest lists them in decreasing order of
\* their path bytes.
C6_Witness ==
    /\ pc = "done"
    /\ IsOk(result)
    /\ Cardinality(uploaded) = 3
    /\ file_list[1][1] = Encode(TextEuro)
    /\ file_list[3][1] = Encode(TextA)

\* C7: two consecutive successful calls with the same prefix on the same
\* directory return manifests with the same entries as sets, and the second
\* leaves the backend as the first left it: the same keys, one object each.
C7_Idempotent ==
    (/\ pc = "done" /\ IsOk(result)
     /\ prev.valid /\ IsOk(prev.result) /\ prev.prefix = prefix) =>
        /\ Range(Manifest(result)) = Range(Manifest(prev.result))
        /\ backend = prev.backend
        /\ \A k \in Keys : Len(backend[k]) <= 1

\* The second call listed the files in another order than the first.
C7_Witness ==
    /\ pc = "done" /\ IsOk(result)
    /\ prev.valid /\ IsOk(prev.result) /\ prev.prefix = prefix
    /\ Len(Manifest(result)) = 2
    /\ Manifest(result) # Manifest(prev.result)
    /\ \E k \in Keys : backend[k] # <<>>

\* C8: a call invokes store_all once, runs file_list_to_json only after
\* store_all has returned Ok, and returns to its caller exactly once.
C8_OnceEach ==
    /\ storeCalls <= 1
    /\ returns <= 1
    /\ (pc = "assemble" \/ ~IsNone(json)) => IsOk(storeResult)
    /\ Finished => (storeCalls = 1 /\ returns = 1)

\* What holds of C8 on every call, a panicking one included.
CallDiscipline ==
    /\ storeCalls <= 1
    /\ returns <= 1
    /\ (pc = "assemble" \/ ~IsNone(json)) => IsOk(storeResult)
    /\ pc = "done" => (storeCalls = 1 /\ returns = 1)
    /\ pc = "panicked" => (storeCalls = 1 /\ returns = 0)

\* C9: file_list_to_json writes nothing: from the return of store_all on,
\* the backend holds what store_all left, whether the assembly succeeds or
\* panics.
C9_AssemblyWritesNothing ==
    pc \in {"store_returned", "assemble", "done", "panicked"} =>
        backend = snapshot

\* A successful call on two files: file_list_to_json ran and the backend
\* holds the two objects store_all wrote.
C9_Witness ==
    /\ pc = "done"
    /\ IsOk(json)
    /\ Cardinality(uploaded) = 2
    /\ Cardinality({k \in Keys : backend[k] # <<>>}) = 2

\* C10: file_list_to_json never returns Err: it returns Ok when every path
\* is text (the empty manifest for the empty list) and panics otherwise; so
\* with text paths the call fails if and only if store_all fails.
C10_NeverErr ==
    /\ ~IsErr(json)
    /\ ~IsNone(json) => (IsPanic(json) <=> ~AllText(file_list))
    /\ (~IsNone(json) /\ file_list = <<>>) => json = Ok(ValueArray(<<>>))
    /\ (Finished /\ AllText(file_list)) =>
           /\ IsErr(result) <=> IsErr(storeResult)
           /\ IsOk(result) <=> IsOk(storeResult)

\* The empty directory: the call succeeded with the empty manifest and the
\* empty algorithm set.
C10_Witness ==
    /\ pc = "done"
    /\ dir = {}
    /\ result = Ok(<<ValueArray(<<>>), {}>>)

====
